---- MODULE Spec2Model ----
(***************************************************************************)
(* A model of scripts/check-usage.py: one run of main(), from loading the  *)
(* configuration file to printing the summary, with parse_usage_data and   *)
(* the library conversions it relies on (float, datetime.strptime,         *)
(* datetime.fromtimestamp, datetime subtraction) computed, not assumed.    *)
(*                                                                         *)
(* Python values are records [t, s, n, e]: t is the type tag, s the        *)
(* characters of a str (a sequence of one-character strings), n and e the  *)
(* number n * 10^e.  A dict key that is not present is the value Absent.   *)
(* An operator that models a call returns [exc, msg, line, v]: exc is      *)
(* "none" and v the value returned, or exc names the exception raised,     *)
(* msg its message and line the source line that raised it.                *)
(***************************************************************************)
EXTENDS Integers, Sequences, FiniteSets, TLC

VARIABLES pc, cfgFile, tz, raw_usage_data, parsed, data, locals, hours,
          percents, out, err, exitCode, uncaught, fetchCalls, parseCalls

vars == <<pc, cfgFile, tz, raw_usage_data, parsed, data, locals, hours,
          percents, out, err, exitCode, uncaught, fetchCalls, parseCalls>>

----------------------------------------------------------------------------
(* Bounds and program constants                                            *)

\* Longest usageMonths list the fetcher returns in the model.
MaxMonths == 2

\* "/ 3600": seconds to hours.
SecsPerHour == 3600

\* "+ 24": the end date covers its whole day.
EndDayHours == 24

\* "* 100": ratio to percentage.
Percent == 100

\* timedelta.total_seconds(): seconds in one day.
SecsPerDay == 86400

\* date(1970, 1, 1).toordinal(): the day of timestamp 0.
EpochOrdinal == 719163

----------------------------------------------------------------------------
(* Python values                                                           *)

Absent == [t |-> "absent", s |-> <<>>, n |-> 0, e |-> 0]
Null == [t |-> "null", s |-> <<>>, n |-> 0, e |-> 0]
Str(chars) == [t |-> "str", s |-> chars, n |-> 0, e |-> 0]
Num(k) == [t |-> "num", s |-> <<>>, n |-> k, e |-> 0]
\* The float m * 10^x, for numbers beyond the model's integers.
Big(m, x) == [t |-> "num", s |-> <<>>, n |-> m, e |-> x]

Ok(v) == [exc |-> "none", msg |-> "", line |-> 0, v |-> v]
Raise(exc, msg, line) == [exc |-> exc, msg |-> msg, line |-> line, v |-> Null]

Digit == {"0", "1", "2", "3", "4", "5", "6", "7", "8", "9"}

DigitVal(c) ==
  CASE c = "0" -> 0 [] c = "1" -> 1 [] c = "2" -> 2 [] c = "3" -> 3
    [] c = "4" -> 4 [] c = "5" -> 5 [] c = "6" -> 6 [] c = "7" -> 7
    [] c = "8" -> 8 [] c = "9" -> 9

IsDigits(s) == \A i \in 1..Len(s) : s[i] \in Digit

RECURSIVE DigitsToNat(_)
DigitsToNat(s) ==
  IF s = <<>> THEN 0
  ELSE DigitsToNat(SubSeq(s, 1, Len(s) - 1)) * 10 + DigitVal(s[Len(s)])

RECURSIVE Pow10(_)
Pow10(k) == IF k = 0 THEN 1 ELSE 10 * Pow10(k - 1)

Abs(x) == IF x < 0 THEN -x ELSE x

RECURSIVE Gcd(_, _)
Gcd(a, b) == IF b = 0 THEN a ELSE Gcd(b, a % b)

----------------------------------------------------------------------------
(* Floats, as exact fractions [n, d] with d > 0 in lowest terms            *)

Rat(n, d) ==
  LET g == Gcd(Abs(n), Abs(d))
      sgn == IF d < 0 THEN -1 ELSE 1
  IN [n |-> sgn * (n \div g), d |-> sgn * (d \div g)]

RatMul(a, b) == Rat(a.n * b.n, a.d * b.d)
RatAdd(a, b) == Rat(a.n * b.d + b.n * a.d, a.d * b.d)

\* float / float: ZeroDivisionError on a zero divisor.
RatDiv(a, b, line) ==
  IF b.n = 0 THEN Raise("ZeroDivisionError", "float division by zero", line)
  ELSE Ok(Rat(a.n * b.d, a.d * b.n))

\* int(x): truncation towards zero.
Trunc(a) == IF a.n >= 0 THEN a.n \div a.d ELSE -((-a.n) \div a.d)

\* "{:.2f}".format(x), as the number of hundredths printed: the nearest
\* hundredth of the exact ratio, ties to even.  (The double Python formats
\* can fall on the other side of a tie that is no multiple of 1/8; no run
\* of the inputs below prints such a tie.)
Fmt2(a) ==
  LET m == Abs(a.n)
      q == m \div a.d
      r == m % a.d
      h == (r * 100) \div a.d
      r2 == (r * 100) % a.d
      whole == q * 100 + h
      up == (2 * r2 > a.d) \/ (2 * r2 = a.d /\ whole % 2 = 1)
      mag == IF up THEN whole + 1 ELSE whole
  IN IF a.n < 0 THEN -mag ELSE mag

\* float(str): [sign] digits [. digits], at least one digit.
ParseFloat(s) ==
  LET signed == Len(s) > 0 /\ s[1] \in {"-", "+"}
      body == IF signed THEN Tail(s) ELSE s
      dots == {i \in 1..Len(body) : body[i] = "."}
      dot == IF dots = {} THEN Len(body) + 1 ELSE CHOOSE i \in dots : TRUE
      ip == SubSeq(body, 1, dot - 1)
      fp == SubSeq(body, dot + 1, Len(body))
      wellFormed == /\ Cardinality(dots) <= 1
                    /\ IsDigits(ip) /\ IsDigits(fp)
                    /\ Len(ip) + Len(fp) > 0
      mag == Rat(DigitsToNat(ip) * Pow10(Len(fp)) + DigitsToNat(fp),
                 Pow10(Len(fp)))
  IN IF ~wellFormed
       THEN Raise("ValueError", "could not convert string to float", 0)
       ELSE Ok(IF signed /\ s[1] = "-" THEN Rat(-mag.n, mag.d) ELSE mag)

\* float(x) of a dict value.
pyfloat(x) ==
  CASE x.t = "num" -> Ok(Rat(x.n * Pow10(x.e), 1))
    [] x.t = "str" -> ParseFloat(x.s)
    [] OTHER -> Raise("TypeError",
                      "float() argument must be a string or a real number", 0)

----------------------------------------------------------------------------
(* Dates: a naive datetime is [ord, sec], its proleptic Gregorian ordinal  *)
(* (date.toordinal()) and the seconds since its midnight                   *)

IsLeap(y) == y % 4 = 0 /\ (y % 100 # 0 \/ y % 400 = 0)

DaysInMonth(y, m) ==
  CASE m \in {1, 3, 5, 7, 8, 10, 12} -> 31
    [] m \in {4, 6, 9, 11} -> 30
    [] OTHER -> IF IsLeap(y) THEN 29 ELSE 28

DaysBeforeYear(y) ==
  (y - 1) * 365 + (y - 1) \div 4 - (y - 1) \div 100 + (y - 1) \div 400

RECURSIVE DaysBeforeMonth(_, _)
DaysBeforeMonth(y, m) ==
  IF m = 1 THEN 0 ELSE DaysBeforeMonth(y, m - 1) + DaysInMonth(y, m - 1)

ymd2ord(y, m, d) == DaysBeforeYear(y) + DaysBeforeMonth(y, m) + d

\* datetime.strptime(x, "%m/%d/%Y").  %m is 1[0-2]|0[1-9]|[1-9]; %d is
\* 3[01]|[12]\d|0[1-9]|[1-9]| [1-9]; %Y is four digits; the text must match
\* to its end, and datetime() then refuses year 0 and a day its month lacks.
strptime(x) ==
  IF x.t # "str"
    THEN Raise("TypeError", "strptime() argument 1 must be str", 0)
  ELSE
    LET s == x.s
        slashes == {i \in 1..Len(s) : s[i] = "/"}
        s1 == CHOOSE i \in slashes : \A j \in slashes : i <= j
        s2 == CHOOSE i \in slashes : \A j \in slashes : j <= i
        mp == SubSeq(s, 1, s1 - 1)
        dp == SubSeq(s, s1 + 1, s2 - 1)
        yp == SubSeq(s, s2 + 1, Len(s))
        dd == IF Len(dp) = 2 /\ dp[1] = " " THEN Tail(dp) ELSE dp
        m == DigitsToNat(mp)
        d == DigitsToNat(dd)
        y == DigitsToNat(yp)
        matches == /\ Cardinality(slashes) = 2
                   /\ Len(mp) \in {1, 2} /\ IsDigits(mp) /\ m \in 1..12
                   /\ Len(dp) \in {1, 2} /\ IsDigits(dd) /\ d \in 1..31
                   /\ Len(dp) = 2 /\ dp[1] = " " => d \in 1..9
                   /\ Len(yp) = 4 /\ IsDigits(yp)
    IN IF ~matches
         THEN Raise("ValueError", "time data does not match format", 0)
       ELSE IF y = 0
         THEN Raise("ValueError", "year 0 is out of range", 0)
       ELSE IF d > DaysInMonth(y, m)
         THEN Raise("ValueError", "day is out of range for month", 0)
       ELSE Ok([ord |-> ymd2ord(y, m, d), sec |-> 0])

\* datetime.fromtimestamp(x) in the local zone, utcoffset seconds east of
\* UTC (CPython on Linux, 64-bit time_t).  A number the model's integers
\* hold lies in 1901..2038 and converts.  A number n * 10^e with e > 0 is
\* out of range: past year 9999 it is a ValueError, past what localtime()
\* converts an OSError, past time_t an OverflowError.
fromtimestamp(x, utcoffset) ==
  IF x.t # "num"
    THEN Raise("TypeError", "object cannot be interpreted as an integer", 0)
  ELSE IF x.e >= 19
    THEN Raise("OverflowError", "timestamp out of range for platform time_t", 0)
  ELSE IF x.e >= 17
    THEN Raise("OSError", "Value too large for defined data type", 0)
  ELSE IF x.e >= 12
    THEN Raise("ValueError", "year is out of range", 0)
  ELSE
    LET local == x.n * Pow10(x.e) + utcoffset
    IN Ok([ord |-> EpochOrdinal + local \div SecsPerDay,
           sec |-> local % SecsPerDay])

\* (a - b).total_seconds()
SecondsBetween(a, b) == (a.ord - b.ord) * SecsPerDay + (a.sec - b.sec)

----------------------------------------------------------------------------
(* parse_usage_data                                                        *)

\* Lines 40-47 with units optional: a record without units is accepted.
UsageFields_UnitsOptional(usage_data) ==
  IF usage_data.used.t = "absent"
    THEN Raise("RuntimeError", "Missing usage field", 45)
  ELSE
    LET u == pyfloat(usage_data.used)
    IN IF u.exc = "ValueError"
         THEN Raise("RuntimeError", "Invalid float for usage", 47)
       ELSE IF u.exc # "none" THEN [u EXCEPT !.line = 41]
       ELSE IF usage_data.total.t = "absent"
         THEN Raise("RuntimeError", "Missing usage field", 45)
       ELSE
         LET t == pyfloat(usage_data.total)
         IN IF t.exc = "ValueError"
              THEN Raise("RuntimeError", "Invalid float for usage", 47)
            ELSE IF t.exc # "none" THEN [t EXCEPT !.line = 42]
            ELSE Ok([used |-> u.v, total |-> t.v, units |-> usage_data.units])

\* Lines 40-47 with the three keys looked up before either conversion.
UsageFields_LookupsFirst(usage_data) ==
  IF \/ usage_data.used.t = "absent"
     \/ usage_data.total.t = "absent"
     \/ usage_data.units.t = "absent"
    THEN Raise("RuntimeError", "Missing usage field", 45)
  ELSE
    LET u == pyfloat(usage_data.used)
        t == pyfloat(usage_data.total)
    IN IF u.exc = "ValueError"
         THEN Raise("RuntimeError", "Invalid float for usage", 47)
       ELSE IF u.exc # "none" THEN [u EXCEPT !.line = 41]
       ELSE IF t.exc = "ValueError"
         THEN Raise("RuntimeError", "Invalid float for usage", 47)
       ELSE IF t.exc # "none" THEN [t EXCEPT !.line = 42]
       ELSE Ok([used |-> u.v, total |-> t.v, units |-> usage_data.units])

\* Lines 40-47: used, total and units, in that order.
UsageFields(usage_data) ==
  IF usage_data.used.t = "absent"
    THEN Raise("RuntimeError", "Missing usage field", 45)
  ELSE
    LET u == pyfloat(usage_data.used)
    IN IF u.exc = "ValueError"
         THEN Raise("RuntimeError", "Invalid float for usage", 47)
       ELSE IF u.exc # "none" THEN [u EXCEPT !.line = 41]
       ELSE IF usage_data.total.t = "absent"
         THEN Raise("RuntimeError", "Missing usage field", 45)
       ELSE
         LET t == pyfloat(usage_data.total)
         IN IF t.exc = "ValueError"
              THEN Raise("RuntimeError", "Invalid float for usage", 47)
            ELSE IF t.exc # "none" THEN [t EXCEPT !.line = 42]
            ELSE IF usage_data.units.t = "absent"
              THEN Raise("RuntimeError", "Missing usage field", 45)
            ELSE Ok([used |-> u.v, total |-> t.v, units |-> usage_data.units])

\* Lines 49-54: usage_data["raw"]["usageMonths"][-1].
LastMonth(usage_data) ==
  IF usage_data.raw.t = "absent" \/ usage_data.raw.usageMonths.t = "absent"
    THEN Raise("RuntimeError", "Missing \"usageMonths\" field", 52)
  ELSE IF usage_data.raw.usageMonths.items = <<>>
    THEN Raise("RuntimeError", "No month data found", 54)
  ELSE Ok(usage_data.raw.usageMonths.items[Len(usage_data.raw.usageMonths.items)])

\* Lines 56-62: startDate, then endDate.
DateRange(last_month) ==
  IF last_month.startDate.t = "absent"
    THEN Raise("RuntimeError", "Missing start and end date", 60)
  ELSE
    LET s == strptime(last_month.startDate)
    IN IF s.exc = "ValueError"
         THEN Raise("RuntimeError", "Failed to decode date range", 62)
       ELSE IF s.exc # "none" THEN [s EXCEPT !.line = 57]
       ELSE IF last_month.endDate.t = "absent"
         THEN Raise("RuntimeError", "Missing start and end date", 60)
       ELSE
         LET e == strptime(last_month.endDate)
         IN IF e.exc = "ValueError"
              THEN Raise("RuntimeError", "Failed to decode date range", 62)
            ELSE IF e.exc # "none" THEN [e EXCEPT !.line = 58]
            ELSE Ok([start_date |-> s.v, end_date |-> e.v])

\* Lines 64-69: data_timestamp.
CurDate(usage_data, utcoffset) ==
  IF usage_data.data_timestamp.t = "absent"
    THEN Raise("RuntimeError", "Missing start and end date", 67)
  ELSE
    LET c == fromtimestamp(usage_data.data_timestamp, utcoffset)
    IN IF c.exc = "ValueError"
         THEN Raise("RuntimeError", "Failed to decode current date", 69)
       ELSE IF c.exc # "none" THEN [c EXCEPT !.line = 65]
       ELSE c

\* parse_usage_data with the month data read before the usage fields.
parse_usage_data_MonthsFirst(usage_data, utcoffset) ==
  LET m == LastMonth(usage_data)
  IN IF m.exc # "none" THEN m
     ELSE
       LET r == DateRange(m.v)
       IN IF r.exc # "none" THEN r
          ELSE
            LET u == UsageFields(usage_data)
            IN IF u.exc # "none" THEN u
               ELSE
                 LET c == CurDate(usage_data, utcoffset)
                 IN IF c.exc # "none" THEN c
                    ELSE Ok(u.v @@ r.v @@ [cur_date |-> c.v])

\* Lines 30-78: the four try blocks in order, then the dict returned.
parse_usage_data(usage_data, utcoffset) ==
  LET u == UsageFields(usage_data)
  IN IF u.exc # "none" THEN u
     ELSE
       LET m == LastMonth(usage_data)
       IN IF m.exc # "none" THEN m
          ELSE
            LET r == DateRange(m.v)
            IN IF r.exc # "none" THEN r
               ELSE
                 LET c == CurDate(usage_data, utcoffset)
                 IN IF c.exc # "none" THEN c
                    ELSE Ok(u.v @@ r.v @@ [cur_date |-> c.v])

----------------------------------------------------------------------------
(* What the run is given: the configuration file, the local time zone and  *)
(* what the fetcher returns                                                *)

ConfigFiles == {"unreadable", "malformed", "nokeys", "ok"}

UtcOffsets == {0, -18000}

UsedValues ==
  { Absent, Num(0),
    Str(<<"5", "0">>), Str(<<"1", "2", ".", "5">>), Str(<<"a", "b", "c">>) }

TotalValues ==
  { Absent, Str(<<"0">>), Str(<<"1", "0", "0">>), Str(<<"n", "/", "a">>) }

UnitsValues == { Absent, Str(<<"G", "B">>) }

StartValues ==
  { Absent, Null,
    Str(<<"0", "1", "/", "0", "1", "/", "2", "0", "2", "4">>),
    Str(<<"0", "2", "/", "3", "0", "/", "2", "0", "2", "4">>) }

EndValues ==
  { Absent,
    Str(<<"0", "1", "/", "3", "1", "/", "2", "0", "2", "4">>),
    Str(<<"1", "2", "/", "3", "1", "/", "2", "0", "2", "3">>),
    Str(<<"1", "/", "1", "/", "2", "0", "2", "4">>),
    Str(<<"2", "0", "2", "4", "-", "0", "1", "-", "3", "1">>) }

\* 2024-01-15 00:00 UTC, 2023-12-01 00:00 UTC, 2024-02-15 00:30 UTC, and
\* values that are no timestamp.
TimestampValues ==
  { Absent, Num(1705276800), Num(1701388800), Num(1707957000),
    Str(<<"a", "b", "c">>), Big(1, 12), Big(1, 18), Big(1, 30) }

LastMonths == [startDate : StartValues, endDate : EndValues]

EarlierMonths ==
  { [startDate |-> Str(<<"1", "2", "/", "0", "1", "/", "2", "0", "2", "3">>),
     endDate |-> Str(<<"1", "2", "/", "3", "1", "/", "2", "0", "2", "3">>)],
    [startDate |-> Absent, endDate |-> Absent] }

List(items) == [t |-> "list", items |-> items]

UsageMonthsValues ==
  {List(<<>>)} \cup
  { List(Append(p, m)) :
      p \in UNION {[1..k -> EarlierMonths] : k \in 0..(MaxMonths - 1)},
      m \in LastMonths }

RawValues ==
  {[t |-> "absent", usageMonths |-> Absent]} \cup
  {[t |-> "dict", usageMonths |-> Absent]} \cup
  {[t |-> "dict", usageMonths |-> l] : l \in UsageMonthsValues}

RawUsageRecords ==
  [t : {"dict"}, used : UsedValues, total : TotalValues, units : UnitsValues,
   raw : RawValues, data_timestamp : TimestampValues]

NoRecord == [t |-> "none"]
Unbound == [t |-> "unbound"]
NoException == [exc |-> "none", line |-> 0]
NotCalled == [exc |-> "notcalled", msg |-> "", line |-> 0]

Line(text, args) == [text |-> text, args |-> args]

----------------------------------------------------------------------------
(* main                                                                    *)

Init ==
  /\ pc = "config"
  /\ cfgFile \in ConfigFiles
  /\ tz \in UtcOffsets
  /\ raw_usage_data = NoRecord
  /\ parsed = NotCalled
  /\ data = Unbound
  /\ locals = Unbound
  /\ hours = Unbound
  /\ percents = Unbound
  /\ out = <<>>
  /\ err = <<>>
  /\ exitCode = -1
  /\ uncaught = NoException
  /\ fetchCalls = 0
  /\ parseCalls = 0

\* sys.exit(0), or falling off the end of main.
ExitZero ==
  /\ pc' = "exit"
  /\ exitCode' = 0
  /\ uncaught' = NoException

\* An exception no handler of main catches: the interpreter prints the
\* traceback on stderr and exits with status 1.
Crash(exc, line) ==
  /\ pc' = "exit"
  /\ exitCode' = 1
  /\ uncaught' = [exc |-> exc, line |-> line]
  /\ err' = Append(err, Line("Traceback (most recent call last):", <<exc, line>>))

\* Lines 82-92 with the sys.exit(0) of the KeyError handler left out.
LoadConfig_NoExit ==
  /\ pc = "config"
  /\ CASE cfgFile = "unreadable" ->
            /\ err' = Append(err, Line("Failed to read config file: {}", <<"OSError">>))
            /\ ExitZero
       [] cfgFile = "nokeys" ->
            /\ err' = Append(err, Line("Missing username or password in config file", <<>>))
            /\ pc' = "fetch"
            /\ UNCHANGED <<exitCode, uncaught>>
       [] cfgFile = "malformed" ->
            Crash("TomlDecodeError", 84)
       [] cfgFile = "ok" ->
            /\ pc' = "fetch"
            /\ UNCHANGED <<err, exitCode, uncaught>>
  /\ UNCHANGED <<cfgFile, tz, raw_usage_data, parsed, data, locals, hours,
                 percents, out, fetchCalls, parseCalls>>

\* Lines 82-92: open the file, decode it (toml.load raises TomlDecodeError,
\* which no handler names, on text that is not TOML), read username and
\* password.
LoadConfig ==
  /\ pc = "config"
  /\ CASE cfgFile = "unreadable" ->
            /\ err' = Append(err, Line("Failed to read config file: {}", <<"OSError">>))
            /\ ExitZero
       [] cfgFile = "nokeys" ->
            /\ err' = Append(err, Line("Missing username or password in config file", <<>>))
            /\ ExitZero
       [] cfgFile = "malformed" ->
            Crash("TomlDecodeError", 84)
       [] cfgFile = "ok" ->
            /\ pc' = "fetch"
            /\ UNCHANGED <<err, exitCode, uncaught>>
  /\ UNCHANGED <<cfgFile, tz, raw_usage_data, parsed, data, locals, hours,
                 percents, out, fetchCalls, parseCalls>>

\* Lines 94-99: get_usage_data returns a record or raises RuntimeError.
FetchUsage ==
  /\ pc = "fetch"
  /\ fetchCalls' = fetchCalls + 1
  /\ \/ /\ out' = out \o << Line("Requesting usage data...", <<>>),
                            Line("Failed to fetch usage data: {}", <<"RuntimeError">>) >>
        /\ ExitZero
        /\ UNCHANGED raw_usage_data
     \/ /\ raw_usage_data' \in RawUsageRecords
        /\ out' = Append(out, Line("Requesting usage data...", <<>>))
        /\ pc' = "parse"
        /\ UNCHANGED <<exitCode, uncaught>>
  /\ UNCHANGED <<cfgFile, tz, parsed, data, locals, hours, percents, err,
                 parseCalls>>

\* Lines 104-105 with data bound to defaults, as if the handler recovered.
ParseFailed_DefaultData(r) ==
  /\ data' = [used |-> Rat(0, 1), total |-> Rat(1, 1), units |-> Null,
              start_date |-> [ord |-> EpochOrdinal, sec |-> 0],
              end_date |-> [ord |-> EpochOrdinal, sec |-> 0],
              cur_date |-> [ord |-> EpochOrdinal, sec |-> 0]]
  /\ out' = out \o << Line("Parsing usage data...", <<>>),
                      Line("Failed to parse usage data: {}", <<r.msg>>) >>
  /\ pc' = "unpack"
  /\ UNCHANGED <<err, exitCode, uncaught>>

\* Lines 104-105: the handler prints the reason and does nothing else, so
\* the run goes on to line 107 with data never assigned.
ParseFailed(r) ==
  /\ data' = data
  /\ out' = out \o << Line("Parsing usage data...", <<>>),
                      Line("Failed to parse usage data: {}", <<r.msg>>) >>
  /\ pc' = "unpack"
  /\ UNCHANGED <<err, exitCode, uncaught>>

\* Lines 101-105: a RuntimeError of the parser is handled; any other
\* exception escapes main.
ParseUsage ==
  /\ pc = "parse"
  /\ parseCalls' = parseCalls + 1
  /\ \E r \in {parse_usage_data(raw_usage_data, tz)} :
        /\ parsed' = [exc |-> r.exc, msg |-> r.msg, line |-> r.line]
        /\ CASE r.exc = "none" ->
                  /\ data' = r.v
                  /\ out' = Append(out, Line("Parsing usage data...", <<>>))
                  /\ pc' = "unpack"
                  /\ UNCHANGED <<err, exitCode, uncaught>>
             [] r.exc = "RuntimeError" ->
                  ParseFailed(r)
             [] OTHER ->
                  /\ data' = data
                  /\ out' = Append(out, Line("Parsing usage data...", <<>>))
                  /\ Crash(r.exc, r.line)
  /\ UNCHANGED <<cfgFile, tz, raw_usage_data, locals, hours, percents,
                 fetchCalls>>

\* Lines 107-112: reading data when parse_usage_data raised is an
\* UnboundLocalError.
Unpack ==
  /\ pc = "unpack"
  /\ IF data = Unbound
       THEN /\ Crash("UnboundLocalError", 107)
            /\ UNCHANGED locals
       ELSE /\ locals' = data
            /\ pc' = "hours"
            /\ UNCHANGED <<err, exitCode, uncaught>>
  /\ UNCHANGED <<cfgFile, tz, raw_usage_data, parsed, data, hours, percents,
                 out, fetchCalls, parseCalls>>

\* Lines 114-115 without the "+ 24".
ComputeHours_NoEndDay ==
  /\ pc = "hours"
  /\ hours' =
       [month_hours |->
          Rat(SecondsBetween(locals.end_date, locals.start_date), SecsPerHour),
        cur_hours |->
          Rat(SecondsBetween(locals.cur_date, locals.start_date), SecsPerHour)]
  /\ pc' = "percents"
  /\ UNCHANGED <<cfgFile, tz, raw_usage_data, parsed, data, locals, percents,
                 out, err, exitCode, uncaught, fetchCalls, parseCalls>>

\* Lines 114-115: the cycle length and the time elapsed, in hours.
ComputeHours ==
  /\ pc = "hours"
  /\ hours' =
       [month_hours |->
          RatAdd(Rat(SecondsBetween(locals.end_date, locals.start_date),
                     SecsPerHour),
                 Rat(EndDayHours, 1)),
        cur_hours |->
          Rat(SecondsBetween(locals.cur_date, locals.start_date), SecsPerHour)]
  /\ pc' = "percents"
  /\ UNCHANGED <<cfgFile, tz, raw_usage_data, parsed, data, locals, percents,
                 out, err, exitCode, uncaught, fetchCalls, parseCalls>>

\* Lines 117-118 with the bandwidth ratio inverted.
ComputePercents_Inverted ==
  /\ pc = "percents"
  /\ LET e == RatDiv(hours.cur_hours, hours.month_hours, 117)
         b == RatDiv(locals.total, locals.used, 118)
     IN IF e.exc # "none"
          THEN Crash(e.exc, e.line) /\ UNCHANGED percents
        ELSE IF b.exc # "none"
          THEN Crash(b.exc, b.line) /\ UNCHANGED percents
        ELSE /\ percents' = [percent_elapsed |-> RatMul(e.v, Rat(Percent, 1)),
                             percent_bw |-> RatMul(b.v, Rat(Percent, 1))]
             /\ pc' = "print"
             /\ UNCHANGED <<err, exitCode, uncaught>>
  /\ UNCHANGED <<cfgFile, tz, raw_usage_data, parsed, data, locals, hours,
                 out, fetchCalls, parseCalls>>

\* Lines 117-118: neither division is guarded.
ComputePercents ==
  /\ pc = "percents"
  /\ LET e == RatDiv(hours.cur_hours, hours.month_hours, 117)
         b == RatDiv(locals.used, locals.total, 118)
     IN IF e.exc # "none"
          THEN Crash(e.exc, e.line) /\ UNCHANGED percents
        ELSE IF b.exc # "none"
          THEN Crash(b.exc, b.line) /\ UNCHANGED percents
        ELSE /\ percents' = [percent_elapsed |-> RatMul(e.v, Rat(Percent, 1)),
                             percent_bw |-> RatMul(b.v, Rat(Percent, 1))]
             /\ pc' = "print"
             /\ UNCHANGED <<err, exitCode, uncaught>>
  /\ UNCHANGED <<cfgFile, tz, raw_usage_data, parsed, data, locals, hours,
                 out, fetchCalls, parseCalls>>

\* Lines 120-126, and the end of main.
PrintSummary ==
  /\ pc = "print"
  /\ out' = out \o
       << Line("", <<>>),
          Line("Summary:", <<>>),
          Line("  Policy elapsed:     {elapse:.2f}%",
               <<Fmt2(percents.percent_elapsed)>>),
          Line("  Bandwidth consumed: {per_bw:.2f}% ({used}{units}/{total}{units})",
               <<Fmt2(percents.percent_bw), Trunc(locals.used), locals.units,
                 Trunc(locals.total), locals.units>>) >>
  /\ ExitZero
  /\ UNCHANGED <<cfgFile, tz, raw_usage_data, parsed, data, locals, hours,
                 percents, err, fetchCalls, parseCalls>>

Next ==
  \/ LoadConfig
  \/ FetchUsage
  \/ ParseUsage
  \/ Unpack
  \/ ComputeHours
  \/ ComputePercents
  \/ PrintSummary

Spec == Init /\ [][Next]_vars

----------------------------------------------------------------------------
(* Properties                                                              *)

HasLine(lines, text) == \E i \in 1..Len(lines) : lines[i].text = text

Positions(lines, text) == {i \in 1..Len(lines) : lines[i].text = text}

FetchFailed == fetchCalls = 1 /\ raw_usage_data.t = "none"

ParseReturned == parseCalls = 1 /\ parsed.exc = "none"

ParseRaised(msg) == parseCalls = 1 /\ parsed.exc = "RuntimeError" /\ parsed.msg = msg

\* C1: every error of a run (configuration file unreadable or without
\* username/password, fetch raising RuntimeError, parse_usage_data raising
\* RuntimeError) ends the run with exit status 0 and no uncaught exception.
C1_ErrorsExitZero ==
  ( /\ pc = "exit"
    /\ \/ cfgFile \in {"unreadable", "nokeys"}
       \/ FetchFailed
       \/ parsed.exc = "RuntimeError" )
  => (exitCode = 0 /\ uncaught = NoException)

\* C2: once parse_usage_data has raised RuntimeError, the reason has been
\* printed, no hours or percentages are ever computed and "Summary:" is
\* never printed.
C2_ParseFailureIsTerminal ==
  parsed.exc = "RuntimeError"
  => /\ \E i \in 1..Len(out) :
          /\ out[i].text = "Failed to parse usage data: {}"
          /\ out[i].args = <<parsed.msg>>
     /\ ~HasLine(out, "Summary:")
     /\ hours = Unbound
     /\ percents = Unbound

\* A run that ended after its parse failed.
C2_Witness == parsed.exc = "RuntimeError" /\ pc = "exit"

\* The failures a dict value has under a conversion, as the parser reports
\* them: a missing key, a ValueError of the conversion, or the exception the
\* parser does not handle.
FieldFailure(value, converted, missingMsg, invalidMsg) ==
  IF value.t = "absent" THEN {<<"RuntimeError", missingMsg>>}
  ELSE IF converted.exc = "ValueError" THEN {<<"RuntimeError", invalidMsg>>}
  ELSE IF converted.exc # "none" THEN {<<converted.exc, converted.msg>>}
  ELSE {}

Convertible(value, converted) == value.t # "absent" /\ converted.exc = "none"

NonNumericString(value) ==
  value.t = "str" /\ pyfloat(value).exc = "ValueError"

\* The six checks of a record, each with the failures the record has there.
\* A check that needs an earlier one's value has no failure when that value
\* is missing.
CheckFailures(d) ==
  LET months == IF d.raw.t = "absent" THEN Absent ELSE d.raw.usageMonths
      last == IF months.t = "absent" \/ months.items = <<>>
                THEN [startDate |-> Str(<<"1", "/", "1", "/", "2", "0", "0", "0">>),
                      endDate |-> Str(<<"1", "/", "1", "/", "2", "0", "0", "0">>)]
                ELSE months.items[Len(months.items)]
  IN << FieldFailure(d.used, pyfloat(d.used),
                     "Missing usage field", "Invalid float for usage")
          \cup FieldFailure(d.total, pyfloat(d.total),
                            "Missing usage field", "Invalid float for usage"),
        FieldFailure(d.units, Ok(d.units), "Missing usage field", ""),
        IF months.t = "absent"
          THEN {<<"RuntimeError", "Missing \"usageMonths\" field">>} ELSE {},
        IF months.t # "absent" /\ months.items = <<>>
          THEN {<<"RuntimeError", "No month data found">>} ELSE {},
        FieldFailure(last.startDate, strptime(last.startDate),
                     "Missing start and end date", "Failed to decode date range")
          \cup FieldFailure(last.endDate, strptime(last.endDate),
                            "Missing start and end date",
                            "Failed to decode date range"),
        FieldFailure(d.data_timestamp, fromtimestamp(d.data_timestamp, tz),
                     "Missing start and end date",
                     "Failed to decode current date") >>

FailingChecks(d) == {g \in 1..6 : CheckFailures(d)[g] # {}}

FirstFailingCheck(d) ==
  CHOOSE g \in FailingChecks(d) : \A h \in FailingChecks(d) : g <= h

ParsedUsageFields ==
  {"used", "total", "units", "start_date", "end_date", "cur_date"}

\* C3 as stated: a record missing used, total or units fails with "Missing
\* usage field", whatever its other fields hold.
C3_MissingFieldAlwaysReported ==
  ( /\ parseCalls = 1
    /\ \/ raw_usage_data.used.t = "absent"
       \/ raw_usage_data.total.t = "absent"
       \/ raw_usage_data.units.t = "absent" )
  => (ParseRaised("Missing usage field") /\ data = Unbound)

\* C3 amended: a record missing used, total or units, in which every one of
\* used and total that is read before the first missing field converts to a
\* float, fails with "Missing usage field" and no ParsedUsage is returned.
C3_MissingFieldReported ==
  ( /\ parseCalls = 1
    /\ \/ raw_usage_data.used.t = "absent"
       \/ /\ Convertible(raw_usage_data.used, pyfloat(raw_usage_data.used))
          /\ raw_usage_data.total.t = "absent"
       \/ /\ Convertible(raw_usage_data.used, pyfloat(raw_usage_data.used))
          /\ Convertible(raw_usage_data.total, pyfloat(raw_usage_data.total))
          /\ raw_usage_data.units.t = "absent" )
  => (ParseRaised("Missing usage field") /\ data = Unbound)

\* The parser has refused a record whose used and total convert and whose
\* units are missing.
C3_Witness ==
  /\ parseCalls = 1
  /\ Convertible(raw_usage_data.used, pyfloat(raw_usage_data.used))
  /\ Convertible(raw_usage_data.total, pyfloat(raw_usage_data.total))
  /\ raw_usage_data.units.t = "absent"
  /\ parsed.exc = "RuntimeError"

\* C4 as stated: a record whose used or total is a non-numeric string fails
\* with "Invalid float for usage", whatever its other fields hold.
C4_InvalidFloatAlwaysReported ==
  ( /\ parseCalls = 1
    /\ \/ NonNumericString(raw_usage_data.used)
       \/ NonNumericString(raw_usage_data.total) )
  => ParseRaised("Invalid float for usage")

\* C4 amended: a record whose used is a non-numeric string, or whose used
\* converts to a float and whose total is a non-numeric string, fails with
\* "Invalid float for usage", whatever its other fields hold.
C4_InvalidFloatReported ==
  ( /\ parseCalls = 1
    /\ \/ NonNumericString(raw_usage_data.used)
       \/ /\ Convertible(raw_usage_data.used, pyfloat(raw_usage_data.used))
          /\ NonNumericString(raw_usage_data.total) )
  => ParseRaised("Invalid float for usage")

\* The parser has refused a record whose used converts, whose total is a
\* non-numeric string and whose units and month data are missing.
C4_Witness ==
  /\ parseCalls = 1
  /\ Convertible(raw_usage_data.used, pyfloat(raw_usage_data.used))
  /\ NonNumericString(raw_usage_data.total)
  /\ raw_usage_data.units.t = "absent"
  /\ raw_usage_data.raw.t = "absent"
  /\ parsed.exc = "RuntimeError"

\* C5: the failure parse_usage_data reports is one of the first failing
\* check, in the order used/total, units, usageMonths present, usageMonths
\* non-empty, startDate/endDate, data_timestamp; it returns only when no
\* check fails, and then returns all six fields.
C5_FirstFailureReported ==
  parseCalls = 1
  => \E f \in {CheckFailures(raw_usage_data)} :
       LET failing == {g \in 1..6 : f[g] # {}}
       IN /\ (parsed.exc = "none") <=> (failing = {})
          /\ parsed.exc = "none" => DOMAIN data = ParsedUsageFields
          /\ parsed.exc # "none" =>
               /\ data = Unbound
               /\ \E g \in failing :
                    /\ \A h \in failing : g <= h
                    /\ \E x \in f[g] :
                         /\ x[1] = parsed.exc
                         /\ x[1] = "RuntimeError" => x[2] = parsed.msg

\* The parser has refused a record that fails three checks or more.
C5_Witness ==
  /\ parseCalls = 1
  /\ parsed.exc = "RuntimeError"
  /\ Cardinality(FailingChecks(raw_usage_data)) >= 3
  /\ FirstFailingCheck(raw_usage_data) >= 2

\* C6: a run whose parsed record has used = 0 and total = 0 does not end
\* with an uncaught arithmetic exception.
C6_ZeroAllowanceDoesNotCrash ==
  ( /\ pc = "exit"
    /\ ParseReturned
    /\ data.used.n = 0
    /\ data.total.n = 0 )
  => uncaught.exc # "ZeroDivisionError"

\* C7: the fetcher and the parser are each called at most once, the fetcher
\* never after a configuration failure, the parser never before a record
\* was fetched, and the progress lines come in the order "Requesting usage
\* data...", "Parsing usage data...", "Summary:", each at most once.
C7_StrictlySequential ==
  /\ fetchCalls <= 1
  /\ parseCalls <= 1
  /\ cfgFile # "ok" => fetchCalls = 0
  /\ raw_usage_data.t = "none" => parseCalls = 0
  /\ parseCalls <= fetchCalls
  /\ Cardinality(Positions(out, "Requesting usage data...")) = fetchCalls
  /\ Cardinality(Positions(out, "Parsing usage data...")) = parseCalls
  /\ Cardinality(Positions(out, "Summary:")) <= parseCalls
  /\ \A i \in Positions(out, "Requesting usage data...") :
       \A j \in Positions(out, "Parsing usage data...") : i < j
  /\ \A i \in Positions(out, "Parsing usage data...") :
       \A j \in Positions(out, "Summary:") : i < j
  /\ HasLine(out, "Failed to fetch usage data: {}") => parseCalls = 0

\* A run that went through every step and printed its summary.
C7_Witness ==
  /\ pc = "exit"
  /\ fetchCalls = 1
  /\ parseCalls = 1
  /\ HasLine(out, "Summary:")

\* The last month of the record fetched, when it has one.
RawLastMonth ==
  raw_usage_data.raw.usageMonths.items[Len(raw_usage_data.raw.usageMonths.items)]

\* The spec's example: cycle 01/01/2024 to 01/31/2024, captured fourteen days
\* after the cycle's start at 00:00 local time, used 50 of 100.
C8_Example ==
  /\ ParseReturned
  /\ RawLastMonth.startDate = Str(<<"0", "1", "/", "0", "1", "/", "2", "0", "2", "4">>)
  /\ RawLastMonth.endDate = Str(<<"0", "1", "/", "3", "1", "/", "2", "0", "2", "4">>)
  /\ raw_usage_data.data_timestamp = Num(1705276800)
  /\ tz = 0
  /\ raw_usage_data.used = Str(<<"5", "0">>)
  /\ raw_usage_data.total = Str(<<"1", "0", "0">>)

C9_TimestampFailuresAreRuntimeErrors ==
  ( /\ parseCalls = 1
    /\ \A g \in 1..5 : CheckFailures(raw_usage_data)[g] = {}
    /\ CheckFailures(raw_usage_data)[6] # {} )
  => IF raw_usage_data.data_timestamp.t = "absent"
       THEN ParseRaised("Missing start and end date")
       ELSE ParseRaised("Failed to decode current date")

\* C10: when the cycle ends on or after the day it starts, its length is at
\* least 24 hours and the division by it does not raise; the length is zero
\* only when the cycle ends exactly one day before it starts.
C10_CycleLength ==
  hours # Unbound =>
    /\ data.end_date.ord >= data.start_date.ord =>
         /\ hours.month_hours.n >= EndDayHours * hours.month_hours.d
         /\ ~(uncaught.exc = "ZeroDivisionError" /\ uncaught.line = 117)
    /\ hours.month_hours.n = 0 <=> data.end_date.ord + 1 = data.start_date.ord

\* A cycle that ends the day it starts, the shortest of at least 24 hours,
\* went through the division.
C10_Witness ==
  /\ hours # Unbound
  /\ data.end_date.ord = data.start_date.ord
  /\ percents # Unbound

====
